---- MODULE Spec2Model ----
(***************************************************************************)
(* EnhancedBrowserPool of the scraper service: one lazily launched browser *)
(* shared by concurrent asynchronous callers on a single event loop.  Each *)
(* action is the code that runs between two suspension points (await) of   *)
(* one call; the callers are the /scrape-multiple handler, the health      *)
(* timer and the /restart-browser handler.                                 *)
(***************************************************************************)
EXTENDS Integers, FiniteSets, Sequences, TLC

\* ---- program constants
maxPages == 3
maxConcurrentScrapes == 2
MaxWaitPolls == 30
StaleMinutes == 10
MaxMultiAccounts == 10
MaxBatchAccounts == 50

\* ---- bounds of the model
NumScrapers == 3
NumWaiters == 1
NumSwept == 2
NumRestartScrapers == 1
NumHealthChecks == 1
NumRestarts == 1
NumInitCalls == 4
MaxTime == 11
NumAccounts == 2
MaxTweets == 1
NumBatchAccounts == 3

\* a /scrape-multiple request is named by its number, which is its scrapeId
Scrapers == Nat \ {0}
\* the health timer is one task, whose calls of healthCheck() follow one another
HealthTasks == {0}
RestartTasks == {-i : i \in 1..NumRestarts}
\* the call of startServer() made when the program is loaded
StartTasks == {-(NumRestarts + 1)}
\* a POST /scrape-batch request
BatchTasks == {-(NumRestarts + NumInitCalls + 2)}
\* the call of gracefulShutdown made for a termination signal
ShutdownTasks == {-(NumRestarts + NumInitCalls + 1)}

VARIABLES
  browser,          \* this.browser: 0 is null, otherwise the id of a launched browser
  live,             \* the launched browsers whose connection is open (isConnected())
  isInitializing,   \* this.isInitializing
  pages,            \* this.pages: pageId -> [scrapeId, created]; a page id is a fresh value,
                    \* named here by the request that opened the page
  activeScrapes,    \* this.activeScrapes
  cookiesLoaded,    \* this.cookiesLoaded
  instanceId,       \* this.instanceId (fresh values are successive numbers)
  lastHealthCheck,  \* this.lastHealthCheck
  launches,         \* number of puppeteer.launch invocations so far
  now,              \* Date.now(), in minutes
  cookiesEnv,       \* process.env.TWITTER_COOKIES holds a cookie array or object with
                    \* at least one valid cookie (name, value and domain)
  task              \* per call: position (pc) and locals

vars == <<browser, live, isInitializing, pages, activeScrapes, cookiesLoaded,
          instanceId, lastHealthCheck, launches, now, cookiesEnv, task>>

poolVars == <<browser, live, isInitializing, pages, activeScrapes, cookiesLoaded,
              instanceId, lastHealthCheck, launches>>

NoPages == [x \in {} |-> 0]

MapPut(m, k, v) == [x \in (DOMAIN m) \cup {k} |-> IF x = k THEN v ELSE m[x]]

MapDel(m, k) == [x \in (DOMAIN m) \ {k} |-> m[x]]

\* locals of a call: h the browser handle it holds, n its waitCount, lease and
\* sid the arguments of its releasePage, ts the time its healthCheck() began,
\* t0 the `now` of its sweep, id0 the instance id the pool had when its
\* restart() began, dir the instance id in the --user-data-dir of the launch
\* it is awaiting (line 482); runs counts the calls the task has made.  Of a request
\* handler: accts the accounts array of its body (accounts are named by
\* numbers), out its results array, busy whether scrapeSingleAccount is running,
\* resp the HTTP status it has sent after a successful acquirePage (0: none).
\* Of a /scrape-batch handler: accts its accounts, size its batchSize, n its
\* loop variable i, out its allResults, resp the status it has sent.  req is
\* the request as it arrived: its route, the url and username of its body
\* and process.env.TWITTER_SEARCH_URL (texts; the empty text is an absent one)
IdleTask == [pc |-> "idle", h |-> 0, n |-> 0, lease |-> 0, sid |-> 0, ts |-> 0,
             t0 |-> 0, id0 |-> 0, dir |-> 0, accts |-> [i \in 1..NumAccounts |-> i], size |-> 0,
             out |-> <<>>, busy |-> FALSE, resp |-> 0, res |-> "none", runs |-> 0,
             req |-> [route |-> "/scrape-multiple", url |-> <<>>, username |-> <<>>,
                      env |-> <<>>]]

\* a call that has returned or thrown keeps only its outcome: how it ended,
\* and of a request handler the status and the results it has sent
Finished(r, result) ==
  [IdleTask EXCEPT !.pc = "done", !.res = result, !.runs = r.runs, !.resp = r.resp,
                   !.accts = r.accts, !.out = r.out, !.req = r.req]

SetTask(t, r) == task' = [task EXCEPT ![t] = r]

\* the pool as its constructor leaves it, with the calls T still to be made
InitFor(T) ==
  /\ browser = 0
  /\ live = {}
  /\ isInitializing = FALSE
  /\ pages = NoPages
  /\ activeScrapes = {}
  /\ cookiesLoaded = FALSE
  /\ instanceId = 0
  /\ lastHealthCheck = 0
  /\ launches = 0
  /\ now = 0
  /\ cookiesEnv \in BOOLEAN
  /\ task = [t \in T |-> IdleTask]

\* ---- initialize()

\* initialize() without the test of the in-progress flag
InitializeEntryNoFlag(b) ==
  IF b # 0 /\ b \in live THEN "reuse" ELSE "launch"

\* initialize() without the test for a browser to reuse
InitializeEntryNoReuse(b) ==
  IF isInitializing THEN "wait" ELSE "launch"

\* the synchronous head of initialize(): which way the call goes
InitializeEntry(b) ==
  IF isInitializing THEN "wait"
  ELSE IF b # 0 /\ b \in live THEN "reuse"
  ELSE "launch"

\* the admission gate letting one scrape too many in
AtCapacityOffByOne == Cardinality(activeScrapes) > maxConcurrentScrapes

\* acquirePage, line 518
AtCapacity == Cardinality(activeScrapes) >= maxConcurrentScrapes

\* acquirePage, lines 524, 527, 532
PoolFull == Cardinality(DOMAIN pages) >= maxPages

\* browser.newPage() is called on the handle initialize() returned
OpenPage(r, hv) ==
  IF hv = 0 THEN Finished(r, "error")
  ELSE [r EXCEPT !.pc = "newPage", !.h = hv]

\* what a caller does once initialize() has returned the handle hv
AfterInitialize(t, hv) ==
  LET r == [task[t] EXCEPT !.dir = 0]
  IN IF t \in Scrapers
     THEN IF PoolFull
          THEN [r EXCEPT !.pc = "slotWait", !.h = hv, !.n = 0]
          ELSE OpenPage(r, hv)
     ELSE Finished(r, "ok")

\* the call of t, with locals r, enters initialize() with this.browser = b;
\* `reused` is the caller's record when the connected browser is returned at once
EnterInitialize(t, r, b, reused) ==
  CASE InitializeEntry(b) = "wait" ->
         /\ browser' = b
         /\ SetTask(t, [r EXCEPT !.pc = "initWait"])
         /\ UNCHANGED <<isInitializing, launches>>
    [] InitializeEntry(b) = "reuse" ->
         /\ browser' = b
         /\ SetTask(t, reused)
         /\ UNCHANGED <<isInitializing, launches>>
    [] InitializeEntry(b) = "launch" ->
         /\ browser' = 0
         /\ isInitializing' = TRUE
         /\ launches' = launches + 1
         /\ SetTask(t, [r EXCEPT !.pc = "launching", !.h = launches + 1,
                                   !.dir = instanceId'])

\* a launch that gives the pool a new instance id
LaunchOkNewId(t) ==
  /\ task[t].pc = "launching"
  /\ browser' = task[t].h
  /\ live' = live \cup {task[t].h}
  /\ lastHealthCheck' = now
  /\ isInitializing' = FALSE
  /\ instanceId' = instanceId + 1
  /\ SetTask(t, AfterInitialize(t, task[t].h))
  /\ UNCHANGED <<pages, activeScrapes, cookiesLoaded, launches, now, cookiesEnv>>

\* puppeteer.launch resolves: handle stored, handler registered
LaunchOk(t) ==
  /\ task[t].pc = "launching"
  /\ browser' = task[t].h
  /\ live' = live \cup {task[t].h}
  /\ lastHealthCheck' = now
  /\ isInitializing' = FALSE
  /\ SetTask(t, AfterInitialize(t, task[t].h))
  /\ UNCHANGED <<pages, activeScrapes, cookiesLoaded, instanceId, launches, now, cookiesEnv>>

\* a failed launch that leaves the in-progress flag up
LaunchFailKeepsFlag(t) ==
  /\ t \notin HealthTasks \cup StartTasks
  /\ task[t].pc = "launching"
  /\ browser' = 0
  /\ isInitializing' = isInitializing
  /\ SetTask(t, Finished(task[t], "error"))
  /\ UNCHANGED <<live, pages, activeScrapes, cookiesLoaded, instanceId, lastHealthCheck,
                 launches, now, cookiesEnv>>

\* puppeteer.launch rejects: the error goes to the caller that launched, a
\* request handler or the /restart-browser handler, which catches it
LaunchFail(t) ==
  /\ t \notin HealthTasks \cup StartTasks
  /\ task[t].pc = "launching"
  /\ browser' = 0
  /\ isInitializing' = FALSE
  /\ SetTask(t, Finished(task[t], "error"))
  /\ UNCHANGED <<live, pages, activeScrapes, cookiesLoaded, instanceId, lastHealthCheck,
                 launches, now, cookiesEnv>>

\* ---- startServer()

\* the program starts: startServer() awaits the first initialize() of the pool
startServer(t) ==
  /\ t \in StartTasks
  /\ task[t].pc = "idle"
  /\ UNCHANGED <<live, pages, activeScrapes, cookiesLoaded, instanceId, lastHealthCheck, now, cookiesEnv>>
  /\ EnterInitialize(t, task[t], browser, Finished(task[t], "ok"))

\* the initialize() of startServer() throws: the catch block calls
\* process.exit(1) and the server never listens
startServerCatch(t) ==
  /\ t \in StartTasks
  /\ task[t].pc = "launching"
  /\ browser' = 0
  /\ isInitializing' = FALSE
  /\ SetTask(t, Finished(task[t], "exit1"))
  /\ UNCHANGED <<live, pages, activeScrapes, cookiesLoaded, instanceId, lastHealthCheck,
                 launches, now, cookiesEnv>>

StartServerStep(t) == startServer(t) \/ startServerCatch(t)

\* startServer() has run up to its await
Started == \A t \in DOMAIN task : t \in StartTasks => task[t].pc # "idle"

\* app.listen has been called: initialize() returned to startServer()
Listening ==
  \A t \in DOMAIN task :
    t \in StartTasks => (task[t].pc = "done" /\ task[t].res = "ok")

\* a handler that forgets the active scrapes
DisconnectedHandlerKeepsScrapes ==
  /\ browser' = 0
  /\ pages' = NoPages
  /\ cookiesLoaded' = FALSE
  /\ activeScrapes' = activeScrapes

\* the 'disconnected' handler registered in initialize()
DisconnectedHandler ==
  /\ browser' = 0
  /\ pages' = NoPages
  /\ cookiesLoaded' = FALSE
  /\ activeScrapes' = {}

\* a launched browser loses its connection and emits 'disconnected'
Disconnect(b) ==
  /\ b \in live
  /\ live' = live \ {b}
  /\ DisconnectedHandler
  /\ UNCHANGED <<isInitializing, instanceId, lastHealthCheck, launches, now, task, cookiesEnv>>

\* ---- acquirePage(scrapeId), the scrape id being the number of the request

AcquireStart(t) ==
  /\ t \in Scrapers
  /\ task[t].pc = "idle"
  /\ \A u \in 1..(t - 1) : task[u].pc # "idle"
  /\ UNCHANGED <<live, pages, activeScrapes, cookiesLoaded, instanceId, lastHealthCheck, now, cookiesEnv>>
  /\ IF AtCapacity
     THEN /\ SetTask(t, Finished(task[t], "capacity"))
          /\ UNCHANGED <<browser, isInitializing, launches>>
     ELSE EnterInitialize(t, task[t], browser, AfterInitialize(t, browser))

\* a slot check that gives up at the first poll
SlotPollNoWait(t) ==
  IF PoolFull THEN Finished(task[t], "exhausted")
  ELSE OpenPage([task[t] EXCEPT !.n = 0], task[t].h)

\* the page-slot wait loop after one more sleep
SlotPoll(t) ==
  LET k == task[t].n + 1
  IN IF PoolFull /\ k < MaxWaitPolls THEN [task[t] EXCEPT !.n = k]
     ELSE IF PoolFull THEN Finished(task[t], "exhausted")
     ELSE OpenPage([task[t] EXCEPT !.n = 0], task[t].h)

\* a 1000 ms sleep of a polling loop ends: the wait loop of initialize()
\* goes on only once the flag is down, the page-slot loop counts the poll
TimerWake(t) ==
  /\ \/ task[t].pc = "initWait" /\ ~isInitializing
     \/ task[t].pc = "slotWait"
  /\ SetTask(t, IF task[t].pc = "initWait" THEN AfterInitialize(t, browser)
                ELSE SlotPoll(t))
  /\ UNCHANGED <<poolVars, now, cookiesEnv>>

\* browser.newPage() resolves: the lease and the scrape id are registered
NewPageOk(t) ==
  /\ task[t].pc = "newPage"
  /\ task[t].h \in live
  /\ pages' = MapPut(pages, t, [scrapeId |-> t, created |-> now])
  /\ activeScrapes' = activeScrapes \cup {t}
  /\ SetTask(t, [task[t] EXCEPT !.pc = "config", !.lease = t, !.sid = t])
  /\ UNCHANGED <<browser, live, isInitializing, cookiesLoaded, instanceId, lastHealthCheck,
                 launches, now, cookiesEnv>>

NewPageFail(t) ==
  /\ task[t].pc = "newPage"
  /\ SetTask(t, Finished(task[t], "error"))
  /\ UNCHANGED <<poolVars, now, cookiesEnv>>

\* lines 570 and 580-606: loadCookies gets as far as page.setCookie
CookiesConfigured == cookiesEnv

\* the page configuration calls resolve; cookies are injected if not yet loaded
ConfigOk(t) ==
  /\ task[t].pc = "config"
  /\ task[t].h \in live
  /\ SetTask(t, [task[t] EXCEPT !.pc = IF ~cookiesLoaded /\ CookiesConfigured
                                        THEN "cookies" ELSE "holding"])
  /\ UNCHANGED <<poolVars, now, cookiesEnv>>

\* a page configuration call rejects: acquirePage throws after the bookkeeping
ConfigFail(t) ==
  /\ task[t].pc = "config"
  /\ SetTask(t, Finished(task[t], "error"))
  /\ UNCHANGED <<poolVars, now, cookiesEnv>>

\* loadCookies: page.setCookie resolves
CookiesOk(t) ==
  /\ task[t].pc = "cookies"
  /\ task[t].h \in live
  /\ cookiesLoaded' = TRUE
  /\ SetTask(t, [task[t] EXCEPT !.pc = "holding"])
  /\ UNCHANGED <<browser, live, isInitializing, pages, activeScrapes, instanceId,
                 lastHealthCheck, launches, now, cookiesEnv>>

\* loadCookies: page.setCookie rejects, the error is caught
CookiesFail(t) ==
  /\ task[t].pc = "cookies"
  /\ SetTask(t, [task[t] EXCEPT !.pc = "holding"])
  /\ UNCHANGED <<poolVars, now, cookiesEnv>>

\* ---- releasePage(pageId, scrapeId)

\* releasePage without the early return for an unknown lease
LeaseKnownAlways(pageId) == TRUE

\* lines 618-619: is the lease known
LeaseKnown(pageId) == pageId \in DOMAIN pages

\* bookkeeping done only when page.close() resolved
ReleaseFinishIfClosed(pageId, scrapeId, closed) ==
  IF closed
  THEN /\ pages' = MapDel(pages, pageId)
       /\ activeScrapes' = activeScrapes \ {scrapeId}
  ELSE UNCHANGED <<pages, activeScrapes>>

\* a release that forgets to free the concurrency slot
ReleaseFinishKeepsScrape(pageId, scrapeId, closed) ==
  /\ pages' = MapDel(pages, pageId)
  /\ activeScrapes' = activeScrapes

\* lines 627-628, run whether page.close() resolved (closed) or rejected
ReleaseFinish(pageId, scrapeId, closed) ==
  /\ pages' = MapDel(pages, pageId)
  /\ activeScrapes' = activeScrapes \ {scrapeId}

\* ---- POST /scrape-multiple: a request that is not made through another
\* endpoint asks for the accounts 1..NumAccounts, in that order

\* the object scrapeSingleAccount returns for account i; error tells whether
\* it carries an error message
ScrapeResult(i, success, count) ==
  [account |-> i, success |-> success, error |-> ~success, count |-> count]

\* results put at the front of the array
PushResultFront(results, r) == <<r>> \o results

\* results.push(result)
PushResult(results, r) == Append(results, r)

\* the loop calls scrapeSingleAccount for the next account
StartAccount(t) ==
  /\ task[t].pc = "holding"
  /\ ~task[t].busy
  /\ Len(task[t].out) < Len(task[t].accts)
  /\ SetTask(t, [task[t] EXCEPT !.busy = TRUE])
  /\ UNCHANGED <<poolVars, now, cookiesEnv>>

\* scrapeSingleAccount returns the tweets of the account
AccountOk(t) ==
  /\ task[t].pc = "holding"
  /\ task[t].busy
  /\ task[t].h \in live
  /\ \E c \in 0..MaxTweets :
       SetTask(t, [task[t] EXCEPT
                     !.busy = FALSE,
                     !.out = PushResult(@, ScrapeResult(task[t].accts[Len(@) + 1], TRUE, c))])
  /\ UNCHANGED <<poolVars, now, cookiesEnv>>

\* a failure on an account that is thrown to the handler instead of recorded
AccountFailThrows(t) ==
  /\ task[t].pc = "holding"
  /\ task[t].busy
  /\ SetTask(t, [task[t] EXCEPT !.busy = FALSE, !.out = <<>>])
  /\ UNCHANGED <<poolVars, now, cookiesEnv>>

\* navigation or extraction fails: scrapeSingleAccount catches the error
AccountFail(t) ==
  /\ task[t].pc = "holding"
  /\ task[t].busy
  /\ SetTask(t, [task[t] EXCEPT
                   !.busy = FALSE,
                   !.out = PushResult(@, ScrapeResult(task[t].accts[Len(@) + 1], FALSE, 0))])
  /\ UNCHANGED <<poolVars, now, cookiesEnv>>

\* an error message is the sequence of its words, and message.includes(text)
\* is tested on whole words (on the messages below this agrees with the
\* substring test of the code)
Includes(msg, phrase) ==
  \E i \in 0..(Len(msg) - Len(phrase)) : SubSeq(msg, i + 1, i + Len(phrase)) = phrase

\* acquirePage, line 519
CapacityMessage ==
  <<"Maximum", "concurrent", "scrapes", "(2)", "reached.",
    "Please", "try", "again", "in", "a", "moment.">>

\* acquirePage, line 533
ExhaustedMessage ==
  <<"Browser", "pool", "exhausted.", "Please", "try", "again", "later.">>

\* the message of the error an acquirePage call ended with
AdmissionMessage(res) ==
  CASE res = "capacity" -> CapacityMessage
    [] res = "exhausted" -> ExhaustedMessage

BusySuggestion ==
  "Another scraping operation is in progress. Please try again in a moment."

CookiesSuggestion ==
  "Please provide valid Twitter cookies in TWITTER_COOKIES environment variable"

RateLimitSuggestion ==
  "Twitter might be rate limiting or blocking requests. Try again in a few minutes."

\* lines 1111-1115
Suggestion(msg) ==
  IF Includes(msg, <<"concurrent", "scrapes">>) THEN BusySuggestion
  ELSE IF Includes(msg, <<"login">>) \/ Includes(msg, <<"Authentication">>)
       THEN CookiesSuggestion
       ELSE RateLimitSuggestion

\* the body the catch block of the handler sends with status 500
FailureEnvelope(msg) ==
  [success |-> FALSE, error |-> msg, timestamp |-> now, suggestion |-> Suggestion(msg)]

\* the status the handler sends: 200 with the results when the loop has run
\* through, 500 from its catch block when a statement of the try block threw
Response(r) == IF Len(r.out) = Len(r.accts) THEN 200 ELSE 500

\* a handler that returns the page only after a successful scrape
ReleaseStartOnSuccessOnly(t) ==
  /\ task[t].pc = "holding"
  /\ ~task[t].busy
  /\ LET r == [task[t] EXCEPT !.resp = Response(task[t])]
     IN SetTask(t, IF LeaseKnown(r.lease) /\ r.resp = 200
                   THEN [r EXCEPT !.pc = "closing"]
                   ELSE Finished(r, "ok"))
  /\ UNCHANGED <<poolVars, now, cookiesEnv>>

\* the handler responds; its finally block calls releasePage for the lease it
\* received
ReleaseStart(t) ==
  /\ task[t].pc = "holding"
  /\ ~task[t].busy
  /\ LET r == [task[t] EXCEPT !.resp = Response(task[t])]
     IN SetTask(t, IF LeaseKnown(r.lease)
                   THEN [r EXCEPT !.pc = "closing"]
                   ELSE Finished(r, "ok"))
  /\ UNCHANGED <<poolVars, now, cookiesEnv>>

CloseOk(t) ==
  /\ task[t].pc = "closing"
  /\ task[t].h \in live
  /\ ReleaseFinish(task[t].lease, task[t].sid, TRUE)
  /\ SetTask(t, Finished(task[t], "ok"))
  /\ UNCHANGED <<browser, live, isInitializing, cookiesLoaded, instanceId, lastHealthCheck,
                 launches, now, cookiesEnv>>

CloseFail(t) ==
  /\ task[t].pc = "closing"
  /\ ReleaseFinish(task[t].lease, task[t].sid, FALSE)
  /\ SetTask(t, Finished(task[t], "closeError"))
  /\ UNCHANGED <<browser, live, isInitializing, cookiesLoaded, instanceId, lastHealthCheck,
                 launches, now, cookiesEnv>>

\* ---- POST /scrape and POST /scrape-user.  A text is the sequence of its
\* parts: names, and the separators "https://", "x.com", "/", "?" and "@"

\* the characters the capture group [^\/\?]+ stops at
Stops == {"/", "?"}

\* /x\.com\/([^\/\?]+)/ matches at part i of the text u
MatchAt(u, i) ==
  /\ i + 2 <= Len(u)
  /\ u[i] = "x.com" /\ u[i + 1] = "/" /\ u[i + 2] \notin Stops

\* the capture group of the leftmost match: the longest run without a stop;
\* the empty text when there is no match
UsernameMatch(u) ==
  IF \E i \in 1..Len(u) : MatchAt(u, i)
  THEN LET i == CHOOSE k \in 1..Len(u) : MatchAt(u, k) /\ \A m \in 1..(k - 1) : ~MatchAt(u, m)
           j == CHOOSE k \in (i + 2)..Len(u) :
                  /\ \A m \in (i + 2)..k : u[m] \notin Stops
                  /\ (k = Len(u) \/ u[k + 1] \in Stops)
       IN SubSeq(u, i + 2, j)
  ELSE <<>>

\* a username taken as it is
CleanUsernameKeepsAt(name) == name

\* username.replace(/^@/, '')
CleanUsername(name) == IF name # <<>> /\ Head(name) = "@" THEN Tail(name) ELSE name

\* `https://x.com/${cleanUsername}`
ProfileURL(name) == <<"https://", "x.com", "/">> \o name

\* POST /scrape, lines 1127-1148: status 400, or the body of the call of the
\* multi-account handler
ScrapeNormalize(q) ==
  LET searchURL == IF q.url # <<>> THEN q.url ELSE q.env
  IN IF searchURL = <<>> THEN [status |-> 400, error |-> "No Twitter URL provided"]
     ELSE IF UsernameMatch(searchURL) = <<>>
          THEN [status |-> 400, error |-> "Invalid Twitter URL format"]
          ELSE [status |-> 0, accounts |-> <<UsernameMatch(searchURL)>>]

\* POST /scrape-user, lines 1181-1205: status 400, or the request goes to
\* POST /scrape with the profile URL as its url
ScrapeUserNormalize(q) ==
  IF q.username = <<>> THEN [status |-> 400, error |-> "Username is required"]
  ELSE ScrapeNormalize([q EXCEPT !.url = ProfileURL(CleanUsername(q.username))])

\* the handler of the route answers 400 or calls the multi-account handler
Routed(t, norm) ==
  SetTask(t, IF norm.status = 400
             THEN Finished([task[t] EXCEPT !.resp = 400], "badRequest")
             ELSE [task[t] EXCEPT !.pc = "idle", !.accts = norm.accounts])

ScrapeRoute(t) ==
  /\ task[t].pc = "received" /\ task[t].req.route = "/scrape"
  /\ Routed(t, ScrapeNormalize(task[t].req))
  /\ UNCHANGED <<poolVars, now, cookiesEnv>>

ScrapeUserRoute(t) ==
  /\ task[t].pc = "received" /\ task[t].req.route = "/scrape-user"
  /\ Routed(t, ScrapeUserNormalize(task[t].req))
  /\ UNCHANGED <<poolVars, now, cookiesEnv>>

\* the body the multi-account handler passes to res.json after its loop
MultiData(r) == [success |-> TRUE, total_accounts |-> Len(r.accts), results |-> r.out]

\* lines 1152-1171: the res.json of POST /scrape
Reshape(data) ==
  IF data.success /\ Len(data.results) >= 1
  THEN [success |-> TRUE, count |-> data.results[1].count]
  ELSE data

\* ---- POST /scrape-batch

\* accounts.slice(i, j) for 0 <= i <= j
Slice(a, i, j) == SubSeq(a, i + 1, IF j < Len(a) THEN j ELSE Len(a))

\* Math.ceil(accounts.length / batchSize)
TotalBatches(len, size) == (len + size - 1) \div size

\* line 1236: the number of the batch the loop is at
BatchNum(r) == (r.n \div r.size) + 1

\* lines 1277-1285: a failed entry for every account of the batch
FailedBatch(batch) == [j \in 1..Len(batch) |-> ScrapeResult(batch[j], FALSE, 0)]

\* the handler validates its body and hands the first batch to the
\* multi-account handler, which is request number 1
BatchStart(b) ==
  /\ b \in BatchTasks
  /\ task[b].pc = "idle"
  /\ SetTask(b, [task[b] EXCEPT !.pc = "batchWait", !.n = 0])
  /\ UNCHANGED <<poolVars, now, cookiesEnv>>

\* lines 1028-1034: the multi-account handler accepts the accounts of a body
MultiAccepts(accounts) == Len(accounts) # 0 /\ Len(accounts) <= MaxMultiAccounts

\* the multi-account handler answers 400 to a body it does not accept,
\* before it asks the pool for a page
MultiReject(t) ==
  /\ t \in Scrapers
  /\ task[t].pc = "idle"
  /\ ~MultiAccepts(task[t].accts)
  /\ SetTask(t, Finished([task[t] EXCEPT !.resp = 400], "badRequest"))
  /\ UNCHANGED <<poolVars, now, cookiesEnv>>

\* the multi-account handler is invoked for request t by the batch loop
Dispatched(t) ==
  \E b \in DOMAIN task :
    b \in BatchTasks /\ task[b].pc = "batchWait" /\ BatchNum(task[b]) = t

\* the multi-account handler has called res.json or res.status(code).json
Responded(c) == c.resp # 0 \/ c.pc = "done"

\* the loop after batch i, whose entries made allResults `results`: it goes
\* on with the next batch (after the delay when `delayed`) or sends the response
BatchNext(r, results, delayed) ==
  IF r.n + r.size < Len(r.accts)
  THEN IF delayed THEN [r EXCEPT !.pc = "batchDelay", !.out = results]
       ELSE [r EXCEPT !.pc = "batchWait", !.out = results, !.n = r.n + r.size]
  ELSE [r EXCEPT !.pc = "done", !.out = results, !.resp = 200, !.res = "ok"]

\* the promise of the batch settles: resolved with the response of the
\* multi-account handler, whose results are appended, or rejected, and the
\* catch block appends failed entries.  (The code goes on right after the
\* handler responded; in the model other steps may come between.)
BatchChunkDone(b) ==
  /\ b \in BatchTasks
  /\ task[b].pc = "batchWait"
  /\ LET r == task[b]
         c == task[BatchNum(r)]
     IN /\ Responded(c)
        /\ SetTask(b, IF c.resp = 200
                      THEN BatchNext(r, r.out \o c.out, TRUE)
                      ELSE BatchNext(r, r.out \o FailedBatch(Slice(r.accts, r.n, r.n + r.size)),
                                     FALSE))
  /\ UNCHANGED <<poolVars, now, cookiesEnv>>

\* the 10 s delay between batches ends
BatchDelayOver(b) ==
  /\ b \in BatchTasks
  /\ task[b].pc = "batchDelay"
  /\ SetTask(b, [task[b] EXCEPT !.pc = "batchWait", !.n = @ + task[b].size])
  /\ UNCHANGED <<poolVars, now, cookiesEnv>>

\* ---- restart()

\* a restart that keeps the instance id
RestartResetKeepsId(t, r) ==
  /\ pages' = NoPages
  /\ cookiesLoaded' = FALSE
  /\ activeScrapes' = {}
  /\ instanceId' = instanceId
  /\ EnterInitialize(t, r, 0, Finished(r, "ok"))

\* lines 667-676: reset, new instance id, initialize(); r holds the locals
RestartReset(t, r) ==
  /\ pages' = NoPages
  /\ cookiesLoaded' = FALSE
  /\ activeScrapes' = {}
  /\ instanceId' = instanceId + 1
  /\ EnterInitialize(t, r, 0, Finished(r, "ok"))

\* lines 657-665: the browser is closed first when there is one
EnterRestart(t) ==
  LET r == [task[t] EXCEPT !.id0 = instanceId]
  IN IF browser # 0
     THEN /\ SetTask(t, [r EXCEPT !.pc = "closingBrowser", !.h = browser])
          /\ UNCHANGED <<browser, isInitializing, pages, activeScrapes, cookiesLoaded,
                         instanceId, launches>>
     ELSE RestartReset(t, r)

\* POST /restart-browser
RestartStart(t) ==
  /\ t \in RestartTasks
  /\ task[t].pc = "idle"
  /\ EnterRestart(t)
  /\ UNCHANGED <<live, lastHealthCheck, now, cookiesEnv>>

\* browser.close() resolves once the browser is gone
BrowserCloseOk(t) ==
  /\ task[t].pc = "closingBrowser"
  /\ task[t].h \notin live
  /\ RestartReset(t, task[t])
  /\ UNCHANGED <<live, lastHealthCheck, now, cookiesEnv>>

\* a close error that ends restart()
BrowserCloseFailThrows(t) ==
  /\ task[t].pc = "closingBrowser"
  /\ SetTask(t, Finished(task[t], "error"))
  /\ UNCHANGED <<poolVars, now, cookiesEnv>>

\* browser.close() rejects; the error is caught
BrowserCloseFail(t) ==
  /\ task[t].pc = "closingBrowser"
  /\ RestartReset(t, task[t])
  /\ UNCHANGED <<live, lastHealthCheck, now, cookiesEnv>>

\* ---- healthCheck()

\* a sweep that also takes the leases aged exactly StaleMinutes
StaleFromTen(lease, at) == at - lease.created >= StaleMinutes

\* line 644
Stale(lease, at) == at - lease.created > StaleMinutes

\* the leases of map m the sweep started at `at` still has to release
StaleIn(m, at) == {p \in DOMAIN m : Stale(m[p], at)}

\* lines 642-648: the sweep calls releasePage for a stale lease of the map m
\* (the code takes them in insertion order, the model in any order), or ends
SweepOn(t, m, at) ==
  IF StaleIn(m, at) = {} THEN SetTask(t, Finished(task[t], "ok"))
  ELSE \E p \in StaleIn(m, at) :
         SetTask(t, [task[t] EXCEPT !.pc = "sweepClosing", !.lease = p,
                                    !.sid = m[p].scrapeId, !.t0 = at])

\* the 5-minute timer fires
HealthStart(t) ==
  /\ t \in HealthTasks
  /\ task[t].pc \in {"idle", "done"}
  /\ task[t].runs < NumHealthChecks
  /\ LET r == [IdleTask EXCEPT !.runs = task[t].runs + 1, !.ts = now]
     IN SetTask(t, IF browser = 0 THEN Finished(r, "ok")
                   ELSE [r EXCEPT !.pc = "version", !.h = browser])
  /\ UNCHANGED <<poolVars, now, cookiesEnv>>

\* browser.version() resolves
VersionOk(t) ==
  /\ task[t].pc = "version"
  /\ task[t].h \in live
  /\ lastHealthCheck' = now
  /\ SweepOn(t, pages, now)
  /\ UNCHANGED <<browser, live, isInitializing, pages, activeScrapes, cookiesLoaded,
                 instanceId, launches, now, cookiesEnv>>

\* a failed liveness query that ends the health check
VersionFailReturns(t) ==
  /\ task[t].pc = "version"
  /\ SetTask(t, Finished(task[t], "ok"))
  /\ UNCHANGED <<poolVars, now, cookiesEnv>>

\* browser.version() rejects: restart()
VersionFail(t) ==
  /\ task[t].pc = "version"
  /\ EnterRestart(t)
  /\ UNCHANGED <<live, lastHealthCheck, now, cookiesEnv>>

SweepCloseOk(t) ==
  /\ task[t].pc = "sweepClosing"
  /\ ReleaseFinish(task[t].lease, task[t].sid, TRUE)
  /\ SweepOn(t, pages', task[t].t0)
  /\ UNCHANGED <<browser, live, isInitializing, cookiesLoaded, instanceId, lastHealthCheck,
                 launches, now, cookiesEnv>>

SweepCloseFail(t) ==
  /\ task[t].pc = "sweepClosing"
  /\ ReleaseFinish(task[t].lease, task[t].sid, FALSE)
  /\ SweepOn(t, pages', task[t].t0)
  /\ UNCHANGED <<browser, live, isInitializing, cookiesLoaded, instanceId, lastHealthCheck,
                 launches, now, cookiesEnv>>

\* ---- gracefulShutdown(signal)

\* process.exit has been called: nothing runs any more
Exited ==
  \E t \in DOMAIN task :
    \/ t \in ShutdownTasks /\ task[t].pc = "exited"
    \/ t \in StartTasks /\ task[t].res = "exit1"

\* a termination signal arrives: the browser is closed if there is one,
\* otherwise the process exits at once
ShutdownStart(t) ==
  /\ t \in ShutdownTasks
  /\ task[t].pc = "idle"
  /\ SetTask(t, IF browser # 0
                THEN [task[t] EXCEPT !.pc = "shutdownClosing", !.h = browser]
                ELSE [task[t] EXCEPT !.pc = "exited", !.res = "exit0"])
  /\ UNCHANGED <<poolVars, now, cookiesEnv>>

\* browser.close() resolves once the browser is gone: process.exit(0)
ShutdownCloseOk(t) ==
  /\ task[t].pc = "shutdownClosing"
  /\ task[t].h \notin live
  /\ SetTask(t, [task[t] EXCEPT !.pc = "exited", !.res = "exit0"])
  /\ UNCHANGED <<poolVars, now, cookiesEnv>>

\* browser.close() rejects: process.exit(1)
ShutdownCloseFail(t) ==
  /\ task[t].pc = "shutdownClosing"
  /\ SetTask(t, [task[t] EXCEPT !.pc = "exited", !.res = "exit1"])
  /\ UNCHANGED <<poolVars, now, cookiesEnv>>

\* ---- the 'unhandledRejection' handler of the process

\* puppeteer.launch rejects inside the restart() of a timer-driven
\* healthCheck(): the error leaves initialize(), restart() and healthCheck(),
\* whose promise nobody awaits (line 432); 'unhandledRejection' calls
\* gracefulShutdown, which finds no browser handle and exits at once
UnhandledRejection(t) ==
  /\ t \in HealthTasks
  /\ task[t].pc = "launching"
  /\ browser' = 0
  /\ isInitializing' = FALSE
  /\ task' = [s \in DOMAIN task |->
               IF s = t THEN Finished(task[t], "error")
               ELSE IF s \in ShutdownTasks
                    THEN [task[s] EXCEPT !.pc = "exited", !.res = "exit0"]
                    ELSE task[s]]
  /\ UNCHANGED <<live, pages, activeScrapes, cookiesLoaded, instanceId, lastHealthCheck,
                 launches, now, cookiesEnv>>

\* ---- time

Tick(d) ==
  /\ now + d <= MaxTime
  /\ now' = now + d
  /\ UNCHANGED <<poolVars, cookiesEnv, task>>

\* ---- the callers

\* initialize() going on inside a call of t
InitializeStep(t) == TimerWake(t) \/ LaunchOk(t) \/ LaunchFail(t)

\* acquirePage of request t
AcquireStep(t) ==
  \/ AcquireStart(t)
  \/ NewPageOk(t) \/ NewPageFail(t) \/ ConfigOk(t) \/ ConfigFail(t)
  \/ CookiesOk(t) \/ CookiesFail(t)

\* releasePage in the finally block of request t
ReleaseStep(t) == ReleaseStart(t) \/ CloseOk(t) \/ CloseFail(t)

\* the account loop of request t
ScrapeStep(t) == StartAccount(t) \/ AccountOk(t) \/ AccountFail(t)

HealthStep(t) ==
  HealthStart(t) \/ VersionOk(t) \/ VersionFail(t) \/ UnhandledRejection(t)

SweepStep(t) == SweepCloseOk(t) \/ SweepCloseFail(t)

RestartStep(t) == BrowserCloseOk(t) \/ BrowserCloseFail(t)

RouteStep(t) == ScrapeRoute(t) \/ ScrapeUserRoute(t)

BatchStep(b) == BatchStart(b) \/ BatchChunkDone(b) \/ BatchDelayOver(b)

ShutdownStep(t) == ShutdownStart(t) \/ ShutdownCloseOk(t) \/ ShutdownCloseFail(t)

\* requests against the pool, and browsers that disconnect
Init == InitFor(1..NumScrapers)

Next ==
  \/ \E t \in DOMAIN task : AcquireStep(t) \/ ReleaseStep(t) \/ InitializeStep(t)
  \/ \E b \in 1..launches : Disconnect(b)

Spec == Init /\ [][Next]_vars

\* a burst of requests that keep their leases: more requests than page slots
InitBurst == InitFor(1..(maxPages + NumWaiters))

NextBurst ==
  \E t \in DOMAIN task : AcquireStep(t) \/ InitializeStep(t)

SpecBurst == InitBurst /\ [][NextBurst]_vars

\* requests, health checks that find the browser responsive, and passing time
InitSweep == InitFor((1..NumSwept) \cup HealthTasks)

NextSweep ==
  \/ \E t \in DOMAIN task :
       \/ AcquireStep(t) \/ ReleaseStep(t) \/ InitializeStep(t)
       \/ HealthStart(t) \/ VersionOk(t) \/ SweepStep(t)
  \/ \E b \in 1..launches : Disconnect(b)
  \/ \E d \in {StaleMinutes, StaleMinutes + 1} : Tick(d)

SpecSweep == InitSweep /\ [][NextSweep]_vars

\* requests and POST /restart-browser
InitRestart == InitFor((1..NumRestartScrapers) \cup RestartTasks)

NextRestart ==
  \/ \E t \in DOMAIN task :
       \/ AcquireStep(t) \/ ReleaseStep(t) \/ InitializeStep(t)
       \/ RestartStart(t) \/ RestartStep(t)
  \/ \E b \in 1..launches : Disconnect(b)

SpecRestart == InitRestart /\ [][NextRestart]_vars

\* requests and health checks, which restart the pool when the browser does
\* not answer; no time passes, so no lease grows stale
InitHealth == InitFor((1..NumSwept) \cup HealthTasks \cup ShutdownTasks)

NextHealth ==
  \/ /\ ~Exited
     /\ \E t \in DOMAIN task :
          \/ AcquireStep(t) \/ ReleaseStep(t) \/ InitializeStep(t)
          \/ HealthStep(t) \/ RestartStep(t)
  \/ /\ ~Exited
     /\ \E b \in 1..launches : Disconnect(b)

SpecHealth == InitHealth /\ [][NextHealth]_vars

\* requests that arrive while no launch is in progress, so that their
\* initialize() never waits
InitReuse == InitFor(1..NumSwept)

NextReuse ==
  \/ \E t \in DOMAIN task :
       \/ ~isInitializing /\ AcquireStart(t)
       \/ NewPageOk(t) \/ NewPageFail(t) \/ ConfigOk(t) \/ ConfigFail(t)
       \/ CookiesOk(t) \/ CookiesFail(t)
       \/ ReleaseStep(t) \/ LaunchOk(t) \/ LaunchFail(t)
  \/ \E b \in 1..launches : Disconnect(b)

SpecReuse == InitReuse /\ [][NextReuse]_vars

\* a burst after its admission, on a connected browser: maxPages requests
\* hold their leases and the others poll in the page-slot wait of
\* acquirePage (a state SpecBurst reaches); the holders release
SlotWaiters == (maxPages + 1)..(maxPages + NumWaiters + 1)

InitSlots ==
  /\ browser = 1
  /\ live = {1}
  /\ isInitializing = FALSE
  /\ pages = [p \in 1..maxPages |-> [scrapeId |-> p, created |-> 0]]
  /\ activeScrapes = 1..maxPages
  /\ cookiesLoaded \in BOOLEAN
  /\ instanceId = 0
  /\ lastHealthCheck = 0
  /\ launches = 1
  /\ now = 0
  /\ cookiesEnv \in BOOLEAN
  /\ cookiesLoaded => cookiesEnv
  /\ task = [t \in (1..maxPages) \cup SlotWaiters |->
               IF t \in SlotWaiters
               THEN [IdleTask EXCEPT !.pc = "slotWait", !.h = 1]
               ELSE [IdleTask EXCEPT !.pc = "holding", !.h = 1, !.lease = t, !.sid = t]]

NextSlots ==
  \E t \in DOMAIN task :
    \/ TimerWake(t)
    \/ NewPageOk(t) \/ NewPageFail(t) \/ ConfigOk(t) \/ ConfigFail(t)
    \/ CookiesOk(t) \/ CookiesFail(t)
    \/ ReleaseStep(t)

SpecSlots == InitSlots /\ [][NextSlots]_vars

\* the fair behaviours: the 1000 ms timer of a waiter fires and every
\* pending call to the browser settles; a request may hold its lease for
\* as long as its scrape takes
FairSlots ==
  \A t \in (1..maxPages) \cup SlotWaiters :
    /\ WF_vars(TimerWake(t))
    /\ WF_vars(NewPageOk(t) \/ NewPageFail(t))
    /\ WF_vars(ConfigOk(t) \/ ConfigFail(t))
    /\ WF_vars(CookiesOk(t) \/ CookiesFail(t))
    /\ WF_vars(CloseOk(t) \/ CloseFail(t))

SpecSlotsFair == SpecSlots /\ FairSlots

\* requests, POST /restart-browser, the health timer and passing time
InitPool ==
  InitFor((1..NumRestartScrapers) \cup RestartTasks \cup HealthTasks \cup ShutdownTasks)

NextPool ==
  \/ /\ ~Exited
     /\ \E t \in DOMAIN task :
          \/ AcquireStep(t) \/ ReleaseStep(t) \/ InitializeStep(t)
          \/ RestartStart(t) \/ RestartStep(t) \/ HealthStep(t) \/ SweepStep(t)
  \/ /\ ~Exited
     /\ \E b \in 1..launches : Disconnect(b)
  \/ /\ ~Exited
     /\ \E d \in {StaleMinutes, StaleMinutes + 1} : Tick(d)

SpecPool == InitPool /\ [][NextPool]_vars

\* as many requests as the gate admits, the health timer with checks that
\* pass or fail, and passing time
InitTimer == InitFor((1..maxConcurrentScrapes) \cup HealthTasks \cup ShutdownTasks)

NextTimer ==
  \/ /\ ~Exited
     /\ \E t \in DOMAIN task :
          \/ AcquireStep(t) \/ ReleaseStep(t) \/ InitializeStep(t)
          \/ HealthStep(t) \/ RestartStep(t) \/ SweepStep(t)
  \/ /\ ~Exited
     /\ \E b \in 1..launches : Disconnect(b)
  \/ /\ ~Exited
     /\ \E d \in {StaleMinutes, StaleMinutes + 1} : Tick(d)

SpecTimer == InitTimer /\ [][NextTimer]_vars

\* requests and a termination signal; after process.exit nothing runs
InitShutdown == InitFor((1..NumSwept) \cup ShutdownTasks)

NextShutdown ==
  \/ /\ ~Exited
     /\ \E t \in DOMAIN task :
          \/ AcquireStep(t) \/ ReleaseStep(t) \/ InitializeStep(t)
          \/ ShutdownStep(t)
  \/ /\ ~Exited
     /\ \E b \in 1..launches : Disconnect(b)

SpecShutdown == InitShutdown /\ [][NextShutdown]_vars

\* the whole process: startServer(), the requests the listening server
\* receives, the health timer and a termination signal; a rejected promise of
\* the timer's healthCheck() reaches the handler of the process
InitUnhandled ==
  InitFor((1..NumSwept) \cup HealthTasks \cup StartTasks \cup ShutdownTasks)

NextUnhandled ==
  \/ \E t \in DOMAIN task : startServer(t)
  \/ /\ Started /\ ~Exited
     /\ \E t \in DOMAIN task :
          \/ Listening /\ AcquireStart(t)
          \/ NewPageOk(t) \/ NewPageFail(t) \/ ConfigOk(t) \/ ConfigFail(t)
          \/ CookiesOk(t) \/ CookiesFail(t)
          \/ ReleaseStep(t) \/ InitializeStep(t) \/ startServerCatch(t)
          \/ HealthStep(t) \/ RestartStep(t) \/ ShutdownStep(t)
  \/ /\ Started /\ ~Exited
     /\ \E b \in 1..launches : Disconnect(b)

SpecUnhandled == InitUnhandled /\ [][NextUnhandled]_vars

\* one POST /scrape-batch request with up to NumBatchAccounts accounts and a
\* batchSize of 1..NumBatchAccounts; request k is the invocation of the
\* multi-account handler for batch k, whose body holds the accounts of batch k
InitBatch ==
  \E len \in 1..NumBatchAccounts, sz \in 1..NumBatchAccounts :
    LET accounts == [i \in 1..len |-> i]
    IN /\ browser = 0
       /\ live = {}
       /\ isInitializing = FALSE
       /\ pages = NoPages
       /\ activeScrapes = {}
       /\ cookiesLoaded = FALSE
       /\ instanceId = 0
       /\ lastHealthCheck = 0
       /\ launches = 0
       /\ now = 0
       /\ cookiesEnv \in BOOLEAN
       /\ task = [t \in (1..TotalBatches(len, sz)) \cup BatchTasks |->
                    IF t \in BatchTasks
                    THEN [IdleTask EXCEPT !.accts = accounts, !.size = sz]
                    ELSE [IdleTask EXCEPT !.accts = Slice(accounts, (t - 1) * sz, t * sz)]]

\* a request handler of the batch responds when its loop has run through
NextBatch ==
  \/ \E t \in DOMAIN task :
       \/ BatchStep(t)
       \/ Dispatched(t) /\ AcquireStart(t)
       \/ NewPageOk(t) \/ NewPageFail(t) \/ ConfigOk(t) \/ ConfigFail(t)
       \/ CookiesOk(t) \/ CookiesFail(t)
       \/ ScrapeStep(t) \/ LaunchOk(t) \/ LaunchFail(t)
       \/ Len(task[t].out) = Len(task[t].accts) /\ ReleaseStart(t)
       \/ CloseOk(t) \/ CloseFail(t)
  \/ \E b \in 1..launches : Disconnect(b)

SpecBatch == InitBatch /\ [][NextBatch]_vars

\* POST /scrape-batch requests as in SpecBatch, with a batchSize that may
\* lie above the limit of the multi-account handler, and one request of
\* MaxMultiAccounts + 1 accounts sent as one batch; the multi-account
\* handler validates the body of every batch
BatchInputs == (1..NumBatchAccounts) \cup {MaxMultiAccounts + 1}

InitBatchWide ==
  \E len \in BatchInputs, sz \in BatchInputs :
    LET accounts == [i \in 1..len |-> i]
    IN /\ len <= NumBatchAccounts \/ sz > MaxMultiAccounts
       /\ browser = 0
       /\ live = {}
       /\ isInitializing = FALSE
       /\ pages = NoPages
       /\ activeScrapes = {}
       /\ cookiesLoaded = FALSE
       /\ instanceId = 0
       /\ lastHealthCheck = 0
       /\ launches = 0
       /\ now = 0
       /\ cookiesEnv \in BOOLEAN
       /\ task = [t \in (1..TotalBatches(len, sz)) \cup BatchTasks |->
                    IF t \in BatchTasks
                    THEN [IdleTask EXCEPT !.accts = accounts, !.size = sz]
                    ELSE [IdleTask EXCEPT !.accts = Slice(accounts, (t - 1) * sz, t * sz)]]

NextBatchWide ==
  \/ \E t \in DOMAIN task :
       \/ BatchStep(t)
       \/ Dispatched(t) /\ MultiAccepts(task[t].accts) /\ AcquireStart(t)
       \/ Dispatched(t) /\ MultiReject(t)
       \/ NewPageOk(t) \/ NewPageFail(t) \/ ConfigOk(t) \/ ConfigFail(t)
       \/ CookiesOk(t) \/ CookiesFail(t)
       \/ ScrapeStep(t) \/ LaunchOk(t) \/ LaunchFail(t)
       \/ Len(task[t].out) = Len(task[t].accts) /\ ReleaseStart(t)
       \/ CloseOk(t) \/ CloseFail(t)
  \/ \E b \in 1..launches : Disconnect(b)

SpecBatchWide == InitBatchWide /\ [][NextBatchWide]_vars

\* the texts a request may carry
Urls ==
  { <<>>,
    <<"https://", "x.com", "/", "alice">>,
    <<"https://", "x.com", "/", "alice", "?", "lang">>,
    <<"https://", "example.com", "/", "alice">> }

Usernames == { <<>>, <<"carol">>, <<"@", "carol">> }

EnvUrls == { <<>>, <<"https://", "x.com", "/", "bob", "/", "likes">> }

\* one request to POST /scrape or POST /scrape-user, with any body
InitScrape ==
  \E r \in {"/scrape", "/scrape-user"}, u \in Urls, n \in Usernames, e \in EnvUrls :
    /\ browser = 0
    /\ live = {}
    /\ isInitializing = FALSE
    /\ pages = NoPages
    /\ activeScrapes = {}
    /\ cookiesLoaded = FALSE
    /\ instanceId = 0
    /\ lastHealthCheck = 0
    /\ launches = 0
    /\ now = 0
    /\ cookiesEnv \in BOOLEAN
    /\ task = [t \in {1} |->
                 [IdleTask EXCEPT !.pc = "received",
                                  !.req = [route |-> r, url |-> u, username |-> n, env |-> e]]]

NextScrape ==
  \/ \E t \in DOMAIN task :
       \/ RouteStep(t)
       \/ AcquireStep(t) \/ ScrapeStep(t) \/ LaunchOk(t) \/ LaunchFail(t)
       \/ Len(task[t].out) = Len(task[t].accts) /\ ReleaseStart(t)
       \/ CloseOk(t) \/ CloseFail(t)
  \/ \E b \in 1..launches : Disconnect(b)

SpecScrape == InitScrape /\ [][NextScrape]_vars

\* as many requests as the gate admits, with their account loops, and
\* browsers that disconnect
InitHandler == InitFor(1..maxConcurrentScrapes)

NextHandler ==
  \/ \E t \in DOMAIN task :
       AcquireStep(t) \/ ScrapeStep(t) \/ ReleaseStep(t) \/ InitializeStep(t)
  \/ \E b \in 1..launches : Disconnect(b)

SpecHandler == InitHandler /\ [][NextHandler]_vars

\* initialize() called several times before the first launch has completed
InitInit == InitFor(1..NumInitCalls)

NextInit ==
  \/ \E t \in DOMAIN task :
       \/ (launches = 0 \/ isInitializing) /\ AcquireStart(t)
       \/ NewPageOk(t) \/ NewPageFail(t) \/ ConfigOk(t) \/ ConfigFail(t)
       \/ CookiesOk(t) \/ CookiesFail(t)
       \/ InitializeStep(t)
  \/ \E b \in 1..launches : Disconnect(b)

SpecInit == InitInit /\ [][NextInit]_vars

\* the fair behaviours: every pending puppeteer.launch resolves or rejects
\* and the 1000 ms timer of every waiting caller fires
FairInit ==
  \A t \in 1..NumScrapers :
    /\ WF_vars(LaunchOk(t) \/ LaunchFail(t))
    /\ WF_vars(TimerWake(t))

SpecInitFair == Init /\ [][NextInit]_vars /\ FairInit

\* maxConcurrentScrapes + 1 requests whose acquirePage calls are started one
\* right after the other, before any of them goes on, with a healthy browser
Concurrent == 1..(maxConcurrentScrapes + 1)

AllStarted == \A t \in Concurrent : task[t].pc # "idle"

InitThree == InitFor(Concurrent)

NextThree ==
  \E t \in DOMAIN task :
    \/ AcquireStart(t)
    \/ AllStarted /\ TimerWake(t)
    \/ AllStarted /\ LaunchOk(t)
    \/ AllStarted /\ NewPageOk(t)
    \/ AllStarted /\ ConfigOk(t)
    \/ AllStarted /\ CookiesOk(t)

SpecThree == InitThree /\ [][NextThree]_vars

\* ---- the claims

NumPages == Cardinality(DOMAIN pages)

NumActive == Cardinality(activeScrapes)

\* the call of task t takes a step
Steps(t) == task'[t] # task[t]

\* C1: the page map never holds more than maxPages entries.
C1_PageMapBounded == NumPages <= maxPages

\* C2: the active-scrape set never holds more than maxConcurrentScrapes ids.
C2_ActiveScrapesBounded == NumActive <= maxConcurrentScrapes

\* C3: of three acquirePage calls started concurrently, once all have ended
\* exactly two hold a lease and the third has failed with the capacity error
\* and has no entry in the page map.
C3_TwoOfThreeSucceed ==
  (\A t \in Concurrent : task[t].pc \in {"holding", "done"}) =>
     /\ Cardinality({t \in Concurrent : task[t].pc = "holding"}) = maxConcurrentScrapes
     /\ \E t \in Concurrent : task[t].res = "capacity" /\ t \notin DOMAIN pages

\* C4: initialize() calls that all start before the first launch has completed
\* invoke puppeteer.launch exactly once, and two launches are never in progress.
C4_SingleLaunch ==
  /\ Cardinality({t \in DOMAIN task : task[t].pc = "launching"}) <= 1
  /\ (\E t \in DOMAIN task : task[t].pc # "idle") => launches = 1

\* every request is past initialize() and holds the handle of the one launch
C4_Witness ==
  /\ \A t \in DOMAIN task :
       /\ task[t].h = 1
       /\ task[t].pc \in {"newPage", "slotWait", "config", "cookies", "holding"}
  /\ launches = 1

\* C5: an acquirePage call made while the active-scrape set holds
\* maxConcurrentScrapes ids fails with the capacity error in its first step,
\* leaving the browser handle, the page map, the active-scrape set, the
\* cookies flag and the initialization state as they were.
C5_CapacityFailsFast ==
  [][\A t \in DOMAIN task :
       (task[t].pc = "idle" /\ Steps(t) /\ NumActive >= maxConcurrentScrapes) =>
          /\ task'[t].pc = "done" /\ task'[t].res = "capacity"
          /\ UNCHANGED <<browser, pages, activeScrapes, cookiesLoaded, isInitializing, launches>>
    ]_vars

C5_Witness ==
  \E t \in DOMAIN task : task[t].res = "capacity" /\ NumActive = maxConcurrentScrapes

\* C6: a releasePage call that found its lease in the page map ends with the
\* lease out of the page map and the operation id out of the active-scrape
\* set, and returns normally, whether page.close() resolved or rejected.
C6_ReleaseReclaims ==
  [][\A t \in DOMAIN task :
       (task[t].pc = "closing" /\ Steps(t)) =>
          /\ task[t].lease \notin DOMAIN pages'
          /\ task[t].sid \notin activeScrapes'
          /\ task'[t].pc = "done" /\ task'[t].res \in {"ok", "closeError"}
    ]_vars

C6_Witness ==
  \E t \in DOMAIN task :
    /\ task[t].pc = "done" /\ task[t].res = "closeError"
    /\ t \notin DOMAIN pages /\ t \notin activeScrapes
    /\ NumPages > 0

\* the leases other than pageId and the operation ids other than scrapeId
\* are left as they are
OthersKept(pageId, scrapeId) ==
  /\ \A p \in (DOMAIN pages) \ {pageId} : p \in DOMAIN pages' /\ pages'[p] = pages[p]
  /\ DOMAIN pages' \subseteq DOMAIN pages
  /\ activeScrapes \ {scrapeId} = activeScrapes' \ {scrapeId}

\* C7: releasePage is idempotent: called for a lease that is not (or no
\* longer) in the page map it returns at once and changes nothing; a call
\* that overlapped another release of the same lease, finishing after the
\* lease has gone, changes nothing either; no release changes another lease
\* or another operation id, and none throws.
C7_ReleaseIdempotent ==
  [][\A t \in DOMAIN task :
       /\ (task[t].pc = "holding" /\ Steps(t) /\ task[t].lease \notin DOMAIN pages) =>
             /\ task'[t].pc = "done" /\ task'[t].res = "ok"
             /\ UNCHANGED <<pages, activeScrapes>>
       /\ (task[t].pc \in {"closing", "sweepClosing"} /\ Steps(t)) =>
             /\ task'[t].res # "error"
             /\ OthersKept(task[t].lease, task[t].sid)
             /\ task[t].lease \notin DOMAIN pages => UNCHANGED <<pages, activeScrapes>>
    ]_vars

\* two releasePage calls for one lease are both at their page.close(), and
\* the page map holds another lease
C7_Witness ==
  \E t \in DOMAIN task, u \in DOMAIN task :
    /\ task[t].pc = "closing" /\ task[u].pc = "sweepClosing"
    /\ task[u].lease = task[t].lease /\ task[u].sid = task[t].sid
    /\ \E p \in DOMAIN pages : p # task[t].lease

\* C8: the 'disconnected' event of the current browser leaves the handle
\* absent, the page map and the active-scrape set empty and the cookies flag
\* false; the next acquirePage then starts a launch, and no other launch is
\* started while that one is in progress.
C8_DisconnectResets ==
  [][/\ (browser # 0 /\ browser \in live /\ browser \notin live') =>
          (browser' = 0 /\ pages' = NoPages /\ activeScrapes' = {} /\ ~cookiesLoaded')
     /\ \A t \in DOMAIN task :
          (task[t].pc = "idle" /\ Steps(t) /\ browser = 0 /\ ~isInitializing) =>
             (launches' = launches + 1 /\ isInitializing' /\ task'[t].pc = "launching")
     /\ isInitializing => launches' = launches
    ]_vars

\* a browser was launched and has disconnected (a request still holds its
\* handle), and an acquirePage is launching the next one
C8_Witness ==
  /\ isInitializing /\ live = {} /\ pages = NoPages /\ activeScrapes = {}
  /\ \E t \in DOMAIN task : task[t].pc = "launching" /\ task[t].h = launches
  /\ \E t \in DOMAIN task : task[t].pc = "holding" /\ task[t].h # 0

\* C9: while the browser handle is absent the page map and the active-scrape
\* set are empty.
C9_NoBrowserNoLeases == browser = 0 => (pages = NoPages /\ activeScrapes = {})

\* C10: an acquirePage call that finds the page map full at the slot check
\* starts to wait instead of failing; while the map stays full each poll
\* counts one more, and the call fails with the exhaustion error at the
\* MaxWaitPolls-th poll and not before, adding nothing to the page map or to
\* the active-scrape set.
C10_BoundedSlotWait ==
  [][\A t \in DOMAIN task :
       /\ (task[t].pc \in {"idle", "initWait", "launching"} /\ Steps(t)
              /\ task'[t].pc \notin {"initWait", "launching", "done"}
              /\ NumPages >= maxPages) =>
             (task'[t].pc = "slotWait" /\ task'[t].n = 0)
       /\ (task[t].pc = "slotWait" /\ Steps(t) /\ NumPages >= maxPages) =>
             /\ UNCHANGED <<pages, activeScrapes>>
             /\ IF task[t].n + 1 < MaxWaitPolls
                THEN task'[t].pc = "slotWait" /\ task'[t].n = task[t].n + 1
                ELSE task'[t].pc = "done" /\ task'[t].res = "exhausted"
       /\ task'[t].res = "exhausted" =>
             (task[t].res = "exhausted" \/ task[t].n + 1 = MaxWaitPolls)
    ]_vars

C10_Witness ==
  \E t \in DOMAIN task :
    /\ task[t].res = "exhausted" /\ t \notin DOMAIN pages /\ t \notin activeScrapes
    /\ NumPages = maxPages

\* C11: a restart() call ends with the pool's instance id different from the
\* one the pool had when the call began, whether it found a browser or not
\* and whether its relaunch succeeded, waited for another launch or failed;
\* the id is already new when the call leaves browser.close(), or at once
\* when there is no browser to close.
C11_RestartNewInstanceId ==
  [][\A t \in DOMAIN task :
       /\ (t \in RestartTasks /\ task[t].pc # "done" /\ task'[t].pc = "done") =>
             instanceId' # task[t].id0
       /\ (t \in RestartTasks /\ Steps(t)
              /\ (task[t].pc = "closingBrowser" \/ (task[t].pc = "idle" /\ browser = 0))) =>
             instanceId' # instanceId
    ]_vars

\* a restart() whose relaunch failed has ended
C11_Witness ==
  \E t \in DOMAIN task :
    /\ t \in RestartTasks /\ task[t].pc = "done" /\ task[t].res = "error"
    /\ instanceId > 0 /\ browser = 0

\* the time at which the healthCheck() call of t, taking a step now, began
HealthBegan(t) == IF task[t].pc \in {"idle", "done"} THEN now ELSE task[t].ts

\* C12: when a healthCheck() call completes, no lease that was already older
\* than StaleMinutes when the call began is left in the page map, and the
\* operation id of such a lease is not in the active-scrape set (stated for
\* the calls that complete while no browser launch is in progress).
C12_StaleLeasesReclaimed ==
  [][\A t \in DOMAIN task :
       (t \in HealthTasks /\ Steps(t) /\ task'[t].pc = "done" /\ ~isInitializing) =>
          \A p \in DOMAIN pages :
             Stale(pages[p], HealthBegan(t)) =>
                (p \notin DOMAIN pages' /\ pages[p].scrapeId \notin activeScrapes')
    ]_vars

\* C13: a call that waited in initialize() for a launch in progress returns,
\* when its wait ends, a handle that is present and connected.
C13_WaiterGetsReadyBrowser ==
  [][\A t \in DOMAIN task :
       (task[t].pc = "initWait" /\ Steps(t)) => (browser # 0 /\ browser \in live)
    ]_vars

\* C14: when the launch started by a call fails, that call ends with the
\* error, the browser handle is absent and the in-progress flag is down; a
\* call that then starts while the handle is absent and no launch is in
\* progress starts a new launch.
C14_LaunchFailureLeavesUnstarted ==
  [][\A t \in DOMAIN task :
       /\ (task[t].pc = "launching" /\ Steps(t) /\ task[t].h \notin live') =>
             /\ task'[t].pc = "done" /\ task'[t].res = "error"
             /\ browser' = 0 /\ ~isInitializing'
       /\ (task[t].pc = "idle" /\ Steps(t) /\ launches > 0 /\ browser = 0
              /\ ~isInitializing) =>
             (launches' = launches + 1 /\ isInitializing' /\ task'[t].pc = "launching")
    ]_vars

\* the first launch has failed (no call ever got a browser) and the next call
\* is launching again
C14_Witness ==
  \E t \in DOMAIN task, u \in DOMAIN task :
    /\ task[t].pc = "done" /\ task[t].res = "error"
    /\ task[u].pc = "launching" /\ task[u].h = launches /\ launches > 1
    /\ \A v \in (DOMAIN task) \ {t, u} : task[v].pc = "idle"

\* the call of t runs lines 667-673 of restart() in this step: it leaves
\* browser.close(), or it found no browser to close
InRestartReset(t) ==
  /\ Steps(t)
  /\ \/ task[t].pc = "closingBrowser"
     \/ task[t].pc = "idle" /\ t \in RestartTasks /\ browser = 0
     \/ task[t].pc = "version" /\ browser = 0

\* C15: the instance id changes only in a step of restart(); every other
\* step (initialize, acquirePage, releasePage, a health check whose query
\* succeeds, a disconnect, a relaunch after a disconnect) leaves it as it is.
C15_InstanceIdOnlyByRestart ==
  [][instanceId' # instanceId => \E t \in DOMAIN task : InRestartReset(t)]_vars

\* the browser has disconnected and been relaunched, a request and a health
\* check have ended, and the instance id is still the first one
C15_Witness ==
  /\ instanceId = 0 /\ launches > 1 /\ browser # 0
  /\ \E t \in DOMAIN task : t \in HealthTasks /\ task[t].pc = "done"
  /\ \E t \in DOMAIN task : t \in Scrapers /\ task[t].pc = "done" /\ task[t].res = "ok"

\* C16: cookies are injected at most once per browser lifetime: no two
\* acquirePage calls are in loadCookies' page.setCookie() on pages of the same
\* browser, and none is there once the cookies of the current browser are loaded.
C16_CookiesOncePerLifetime ==
  \A t \in DOMAIN task :
    task[t].pc = "cookies" =>
      /\ \A u \in (DOMAIN task) \ {t} : task[u].pc = "cookies" => task[u].h # task[t].h
      /\ (task[t].h = browser /\ browser \in live) => ~cookiesLoaded

\* C17: a request whose acquirePage succeeded leaves its try block, on the
\* success path and on the failure path, only into releasePage for its lease
\* (which returns at once when the lease is already gone); once the handler
\* has finished, its lease is not in the page map and its scrape id is not in
\* the active-scrape set.  (A request acquires one lease, named by the request.)
C17_HandlerReleasesLease ==
  [][\A t \in DOMAIN task :
       /\ (task[t].pc = "holding" /\ Steps(t) /\ task'[t].pc # "holding") =>
             /\ task[t].lease = t /\ task[t].sid = t
             /\ \/ task'[t].pc = "closing" /\ t \in DOMAIN pages
                \/ task'[t].pc = "done" /\ t \notin DOMAIN pages
       /\ (task'[t].pc = "done" /\ task'[t].resp # 0) =>
             (t \notin DOMAIN pages' /\ t \notin activeScrapes')
    ]_vars

\* one request has finished on the failure path and one on the success path,
\* the browser still being connected
C17_Witness ==
  /\ browser # 0 /\ browser \in live /\ launches = 1
  /\ pages = NoPages /\ activeScrapes = {}
  /\ \E t \in DOMAIN task : task[t].pc = "done" /\ task[t].resp = 500
  /\ \E t \in DOMAIN task : task[t].pc = "done" /\ task[t].resp = 200

\* the results array r holds the results of accounts 1..Len(r), in that order
InInputOrder(r) == \A i \in 1..Len(r) : r[i].account = i

\* C18: the accounts of a request are processed in input order, one at a
\* time: an account is started only when no account is in progress and the
\* results array holds the results of all accounts before it, in order; the
\* account in progress ends with its own result added at the end; and the
\* results sent with status 200 are one per account, in input order.
C18_AccountsInOrder ==
  [][\A t \in DOMAIN task :
       LET r == task[t].out
           k == Len(r)
       IN /\ ((~task[t].busy) /\ task'[t].busy) =>
                (k < NumAccounts /\ InInputOrder(r) /\ task'[t].out = r)
          /\ (task[t].busy /\ ~task'[t].busy) =>
                /\ Len(task'[t].out) = k + 1
                /\ SubSeq(task'[t].out, 1, k) = r
                /\ task'[t].out[k + 1].account = k + 1
          /\ (task[t].busy = task'[t].busy /\ task'[t].pc \in {"holding", "closing"}) =>
                task'[t].out = r
          /\ (task[t].resp = 0 /\ task'[t].resp = 200) =>
                (k = NumAccounts /\ InInputOrder(r) /\ ~task[t].busy)
    ]_vars

\* a request has sent status 200 with a result for every account
C18_Witness ==
  \E t \in DOMAIN task :
    /\ task[t].pc = "closing" /\ task[t].resp = 200
    /\ Len(task[t].out) = NumAccounts
    /\ \A i \in 1..NumAccounts : task[t].out[i].success

\* C19: a failure on one account adds to the results array an entry for that
\* account with success false, an error and count 0, changes nothing in the
\* pool, and leaves the request in its loop, ready for the next account; a
\* loop that has run through all accounts is answered with status 200
\* whatever the accounts' results.
C19_AccountFailureRecorded ==
  [][\A t \in DOMAIN task :
       LET k == Len(task[t].out)
       IN /\ (task[t].busy /\ Steps(t)) =>
                /\ task'[t].pc = "holding" /\ ~task'[t].busy
                /\ Len(task'[t].out) = k + 1
                /\ LET e == task'[t].out[k + 1]
                   IN ~e.success => (e = ScrapeResult(k + 1, FALSE, 0) /\ e.error
                                     /\ UNCHANGED poolVars)
          /\ (task[t].pc = "holding" /\ k = NumAccounts /\ Steps(t)) =>
                task'[t].resp = 200
    ]_vars

\* a request has sent status 200 with a failed first account and a
\* successful last one
C19_Witness ==
  \E t \in DOMAIN task :
    /\ task[t].pc = "closing" /\ task[t].resp = 200
    /\ Len(task[t].out) = NumAccounts
    /\ ~task[t].out[1].success /\ task[t].out[1].count = 0
    /\ task[t].out[NumAccounts].success

\* C20: a reset is never partial: in no reachable state is the browser handle
\* absent while the page map or the active-scrape set is not empty or the
\* cookies flag is still up.
C20_ResetNeverPartial ==
  browser = 0 => (pages = NoPages /\ activeScrapes = {} /\ ~cookiesLoaded)

\* the reset of restart() as run by the call of t: handle dropped, bookkeeping
\* emptied, new instance id, and initialize() entered, which starts a launch
\* or waits for the launch in progress
ResetDone(t) ==
  /\ browser' = 0 /\ pages' = NoPages /\ activeScrapes' = {} /\ ~cookiesLoaded'
  /\ instanceId' # instanceId
  /\ \/ task'[t].pc = "launching" /\ launches' = launches + 1 /\ isInitializing'
     \/ task'[t].pc = "initWait" /\ isInitializing /\ launches' = launches

\* C21: a healthCheck() whose browser.version() fails (as it must when the
\* browser it queried is gone) goes into restart(): it closes the current
\* browser if there is one, then drops the handle, empties the bookkeeping,
\* takes a new instance id and enters initialize(); none of these steps
\* changes the last-health-check time.
C21_FailedCheckRestarts ==
  [][\A t \in DOMAIN task :
       t \in HealthTasks =>
         /\ (task[t].pc = "version" /\ Steps(t)
                /\ (task[t].h \notin live \/ task'[t].pc \notin {"sweepClosing", "done"})) =>
               /\ lastHealthCheck' = lastHealthCheck
               /\ IF browser # 0
                  THEN /\ task'[t].pc = "closingBrowser" /\ task'[t].h = browser
                       /\ UNCHANGED <<browser, pages, activeScrapes, cookiesLoaded, instanceId>>
                  ELSE ResetDone(t)
         /\ (task[t].pc = "closingBrowser" /\ Steps(t)) =>
               (ResetDone(t) /\ lastHealthCheck' = lastHealthCheck)
    ]_vars

\* a health check that began after time had passed has failed and is
\* relaunching: the pool is reset and the last-health-check time is the old one
C21_Witness ==
  \E t \in DOMAIN task :
    /\ t \in HealthTasks /\ task[t].pc = "launching"
    /\ task[t].ts = now /\ lastHealthCheck < now
    /\ instanceId > 0 /\ browser = 0 /\ pages = NoPages /\ activeScrapes = {}

\* C22: a restart() leaves browser.close(), resolved or rejected, into its
\* reset (page map, active-scrape set and cookies flag emptied, handle
\* dropped, new instance id) and into initialize(), never into an error; and
\* when the launch it started resolves, it returns normally with the handle
\* present and connected and no launch in progress.
C22_RestartSurvivesCloseError ==
  [][\A t \in DOMAIN task :
       t \in RestartTasks =>
         /\ (task[t].pc = "closingBrowser" /\ Steps(t)) => ResetDone(t)
         /\ (task[t].pc = "launching" /\ Steps(t) /\ task[t].h \in live') =>
               /\ task'[t].pc = "done" /\ task'[t].res = "ok"
               /\ browser' = task[t].h /\ browser' \in live' /\ ~isInitializing'
    ]_vars

\* a restart() has returned with a connected browser while the browser it
\* failed to close is still connected
C22_Witness ==
  \E t \in DOMAIN task :
    /\ t \in RestartTasks /\ task[t].pc = "done" /\ task[t].res = "ok"
    /\ browser # 0 /\ browser \in live /\ live # {browser}

\* gracefulShutdown has been called
ShutdownBegun == \E t \in DOMAIN task : t \in ShutdownTasks /\ task[t].pc # "idle"

\* C23: once gracefulShutdown has begun, no browser is launched and no lease
\* or scrape id is registered any more.
C23_ShutdownTerminal ==
  [][ShutdownBegun =>
       /\ launches' = launches
       /\ DOMAIN pages' \subseteq DOMAIN pages
       /\ activeScrapes' \subseteq activeScrapes
    ]_vars

\* C24: a request whose acquirePage ended with an admission error, of either
\* kind (concurrency ceiling, page slots exhausted after the bounded wait), is
\* answered with a failure envelope carrying the error and the suggestion
\* that the pool is busy, not the cookies one and not the rate-limiting one.
C24_AdmissionErrorSaysBusy ==
  \A t \in DOMAIN task :
    (t \in Scrapers /\ task[t].pc = "done" /\ task[t].res \in {"capacity", "exhausted"}) =>
       LET e == FailureEnvelope(AdmissionMessage(task[t].res))
       IN ~e.success /\ e.error = AdmissionMessage(task[t].res)
          /\ e.suggestion = BusySuggestion

\* the invocations of the multi-account handler that are running
ChunksRunning == {t \in DOMAIN task : t \in Scrapers /\ task[t].pc \notin {"idle", "done"}}

\* the batch runs one invocation at a time and holds at most one lease
OneChunkAtATime == Cardinality(ChunksRunning) <= 1 /\ NumPages <= 1

\* the response of the batch has one entry per account, in input order
BatchResultsComplete ==
  \A b \in DOMAIN task :
    (b \in BatchTasks /\ task[b].pc = "done") =>
       /\ Len(task[b].out) = Len(task[b].accts)
       /\ \A i \in 1..Len(task[b].out) : task[b].out[i].account = task[b].accts[i]

\* C25: a /scrape-batch request runs its batches through the multi-account
\* handler one after another, never two at once, so that it holds at most
\* one lease at a time, and its response has exactly one entry per input
\* account, in input order.
C25_BatchOneChunkAtATime == OneChunkAtATime /\ BatchResultsComplete

\* text `a` is the start of text `u`
StartsWith(u, a) == Len(a) <= Len(u) /\ SubSeq(u, 1, Len(a)) = a

\* the request has left the handler of its route
HasRouted(r) == r.pc # "received"

\* C26 as stated: POST /scrape takes a body with a url or with a username,
\* and either way calls the multi-account handler with that one account.
C26_ScrapeTakesUrlOrUsername ==
  \A t \in DOMAIN task :
    LET r == task[t]
    IN (HasRouted(r) /\ r.req.route = "/scrape") =>
         /\ UsernameMatch(r.req.url) # <<>> =>
               (r.resp # 400 /\ r.accts = <<UsernameMatch(r.req.url)>>)
         /\ (r.req.url = <<>> /\ r.req.username # <<>>) =>
               (r.resp # 400 /\ r.accts = <<CleanUsername(r.req.username)>>)

\* C26, amended: POST /scrape takes the url of the body, or TWITTER_SEARCH_URL
\* when the body has none, and never looks at the username of the body: it
\* answers 400 when there is no URL or the URL names no x.com profile.  POST
\* /scrape-user takes the username of the body (400 when there is none) and
\* never looks at its url.  An accepted request calls the multi-account
\* handler with exactly one account: the name that follows "x.com/" in the
\* URL, or the username without its leading "@"; and its 200 response is the
\* single-account shape with the count of the first result.
C26_ScrapeNormalizes ==
  \A t \in DOMAIN task :
    LET r == task[t]
        q == r.req
        u == IF q.url # <<>> THEN q.url ELSE q.env
    IN HasRouted(r) =>
         /\ r.resp # 400 =>
               /\ Len(r.accts) = 1 /\ r.accts[1] # <<>>
               /\ \A i \in 1..Len(r.accts[1]) : r.accts[1][i] \notin Stops
         /\ q.route = "/scrape" =>
               /\ r.resp = 400 <=> (u = <<>> \/ ~\E i \in 1..Len(u) : MatchAt(u, i))
               /\ r.resp # 400 => StartsWith(u, ProfileURL(r.accts[1]))
         /\ q.route = "/scrape-user" =>
               /\ r.resp = 400 <=> q.username = <<>>
               /\ r.resp # 400 =>
                     /\ q.username \in {r.accts[1], <<"@">> \o r.accts[1]}
                     /\ Head(r.accts[1]) # "@"
         /\ r.resp = 200 =>
               Reshape(MultiData(r)) = [success |-> TRUE, count |-> r.out[1].count]

\* a POST /scrape-user request for "@carol" has been answered with status 200
\* after a single-account call for "carol", its body carrying a url as well
C26_Witness ==
  \E t \in DOMAIN task :
    /\ task[t].req.route = "/scrape-user" /\ task[t].req.username = <<"@", "carol">>
    /\ task[t].req.url # <<>>
    /\ task[t].resp = 200 /\ task[t].accts = << <<"carol">> >> /\ Len(task[t].out) = 1

\* C27: when the single account of a POST /scrape request failed in the
\* scrape, the response of the request reports the failure: it is not a
\* success response, and it carries an error.
C27_ScrapeReportsFailure ==
  \A t \in DOMAIN task :
    LET r == task[t]
    IN (r.req.route = "/scrape" /\ r.resp = 200 /\ ~r.out[1].success) =>
         LET d == Reshape(MultiData(r))
         IN ~d.success /\ "error" \in DOMAIN d

\* the operation ids that own a lease of the page map
LeaseOwners == {pages[p].scrapeId : p \in DOMAIN pages}

\* C28: in every state the active-scrape set is exactly the set of the
\* operation ids that own a lease of the page map, and the two have the
\* same size (every request has an operation id of its own).
C28_ActiveScrapesAreLeaseOwners ==
  activeScrapes = LeaseOwners /\ NumActive = NumPages

\* after a restart one request has released its lease and another holds one
C28_Witness ==
  /\ instanceId > 0 /\ NumPages = 1 /\ NumActive = 1
  /\ \E t \in DOMAIN task :
       t \in Scrapers /\ task[t].pc = "done" /\ task[t].res \in {"ok", "closeError"}

\* C29: an acquirePage call that has thrown, at whichever step, has left no
\* lease of its request in the page map and no entry for its operation id in
\* the active-scrape set.
C29_FailedAcquireLeavesNothing ==
  [][\A t \in DOMAIN task :
       (t \in Scrapers /\ task[t].pc \in {"idle", "initWait", "launching", "slotWait",
                                           "newPage", "config", "cookies"}
          /\ task'[t].pc = "done") =>
         (t \notin DOMAIN pages' /\ t \notin activeScrapes')
    ]_vars

\* C30: restart() never overwrites the handle of a connected browser other
\* than the one it closed: when a restart() call leaves browser.close() and
\* resets the pool, the handle, if it is one of a connected browser, is the
\* handle that call closed; so no launched browser is left connected without
\* being the handle of the pool.
C30_RestartOverwritesOnlyClosed ==
  [][\A t \in DOMAIN task :
       (task[t].pc = "closingBrowser" /\ Steps(t) /\ browser # 0 /\ browser \in live) =>
          browser = task[t].h
    ]_vars

\* C31: a 'disconnected' event of a browser that is not the current handle
\* of the pool leaves the handle, the page map, the active-scrape set and the
\* cookies flag as they were.
C31_StaleDisconnectIgnored ==
  [][\A b \in live :
       (b \notin live' /\ b # browser) =>
          UNCHANGED <<browser, pages, activeScrapes, cookiesLoaded>>
    ]_vars

\* C32: the listening server exits only in response to a termination signal:
\* a step that ends the process while no signal has been received is the
\* step of an arriving signal, so a failed relaunch of a timer-driven health
\* check leaves the process running.
C32_ExitOnlyOnSignal ==
  [][(Listening /\ ~ShutdownBegun /\ Exited') => \E s \in DOMAIN task : ShutdownStart(s)]_vars

\* C33: whenever the pool is READY, the instance id it reports is the id
\* under which the current browser was launched: a launch that makes its
\* browser the pool's handle finds the id of its profile directory in
\* this.instanceId, and the id stays as it is while the handle is kept, also
\* when restart() ran during the launch.
C33_ReportedIdIsLaunchId ==
  [][/\ \A t \in DOMAIN task :
          (task[t].pc = "launching" /\ browser' = task[t].h /\ browser # browser')
             => instanceId' = task[t].dir
      /\ ((browser # 0 /\ browser' = browser) => instanceId' = instanceId)
    ]_vars

\* C34: an initialize() call made while the pool is READY and the browser is
\* connected returns the existing handle at once: nothing is launched, and
\* the handle, the page map, the active-scrape set, the cookies flag, the
\* instance id and the in-progress flag are unchanged.
C34_ReadyInitializeReuses ==
  [][\A t \in DOMAIN task :
       (/\ AcquireStart(t)
        /\ ~AtCapacity
        /\ browser # 0
        /\ browser \in live)
       => /\ UNCHANGED <<browser, live, pages, activeScrapes, cookiesLoaded, instanceId,
                         isInitializing, launches>>
          /\ task'[t].h = browser
          /\ task'[t].pc \in {"newPage", "slotWait"}
    ]_vars

\* the second request found the browser of the first connected and goes on
\* to open its page on that handle
C34_Witness ==
  /\ task[2].pc = "newPage"
  /\ task[2].h = 1
  /\ browser = 1
  /\ 1 \in live
  /\ launches = 1
  /\ ~isInitializing

\* the `now` (line 641) of the sweep a step of health check t belongs to
SweepNow(t) == IF task[t].pc = "version" THEN now ELSE task[t].t0

\* C35: a healthCheck() whose liveness query succeeded removes every lease
\* older than 10 minutes and only those: each of its steps keeps the leases
\* aged 10 minutes or less and their operation ids, the browser handle, the
\* cookies flag and the instance id, and when it returns no lease older than
\* 10 minutes is left.
C35_SweepTakesOnlyStale ==
  [][\A t \in DOMAIN task :
       (VersionOk(t) \/ SweepCloseOk(t) \/ SweepCloseFail(t))
       => /\ UNCHANGED <<browser, cookiesLoaded, instanceId>>
          /\ \A p \in DOMAIN pages :
               SweepNow(t) - pages[p].created <= StaleMinutes
               => /\ p \in DOMAIN pages'
                  /\ pages'[p] = pages[p]
                  /\ (pages[p].scrapeId \in activeScrapes
                        => pages[p].scrapeId \in activeScrapes')
          /\ task'[t].pc = "done"
             => \A p \in DOMAIN pages' : SweepNow(t) - pages'[p].created <= StaleMinutes
    ]_vars

\* the liveness query of a health check has succeeded and its sweep is
\* releasing a lease older than 10 minutes while a lease aged 10 minutes or
\* less is in the page map
C35_Witness ==
  \E t \in DOMAIN task, w \in DOMAIN pages :
    /\ t \in HealthTasks
    /\ task[t].pc = "sweepClosing"
    /\ task[t].lease \in DOMAIN pages
    /\ task[t].t0 - pages[task[t].lease].created > StaleMinutes
    /\ task[t].t0 - pages[w].created <= StaleMinutes
    /\ pages[w].scrapeId \in activeScrapes

\* C36: an acquirePage call polling in the page-slot wait leaves the wait
\* once a releasePage has freed a slot before its 30th poll: from a state in
\* which it is polling and the page map is below maxPages it never ends with
\* the exhaustion error (the browser stays connected).
C36_FreedSlotEndsWait ==
  \A t \in SlotWaiters :
    []((task[t].pc = "slotWait" /\ ~PoolFull) => [](task[t].res # "exhausted"))

\* C37: every initialize() call terminates, given that the launch resolves
\* or rejects: the in-progress flag always comes down again, a call that is
\* launching returns or throws, and a caller polling in the wait loop
\* leaves it.
C37_InitializeTerminates ==
  /\ isInitializing ~> ~isInitializing
  /\ \A t \in 1..NumScrapers :
       (task[t].pc \in {"launching", "initWait"})
         ~> (task[t].pc \notin {"launching", "initWait"})

\* the one launch failed in the request that made it, and every request that
\* waited for it has left initialize() and ended
C37_Witness ==
  /\ launches = 1
  /\ live = {}
  /\ ~isInitializing
  /\ task[1].pc = "done" /\ task[1].res = "error"
  /\ \A t \in 2..NumScrapers : task[t].pc = "done"

\* C38: every batch of a /scrape-batch request that the batch endpoint
\* accepts (1..50 accounts, a positive batchSize) is accepted by the
\* multi-account handler: none is answered 400 by its validation and turned
\* into failed results.
C38_EveryBatchAccepted ==
  \A b \in DOMAIN task :
    (/\ b \in BatchTasks
     /\ Len(task[b].accts) \in 1..MaxBatchAccounts
     /\ task[b].size > 0)
    => \A t \in 1..TotalBatches(Len(task[b].accts), task[b].size) :
         task[t].resp # 400

====
